---- MODULE Spec2Model ----
(***************************************************************************)
(* Model of the DevTeam agent turn loop (core/devteam/agents/base.py) and  *)
(* of the client facade it drives (core/devteam/llm/base.py).              *)
(*                                                                         *)
(* BaseAgent.invoke is an async generator.  Its body runs only while the   *)
(* consumer awaits __anext__ (demand = TRUE) and is suspended at a yield   *)
(* otherwise.  The steps of the model are the pieces of the body between   *)
(* two suspension points: a yield, the await of a client's complete, the   *)
(* await of a tool's execute.                                              *)
(***************************************************************************)
EXTENDS Integers, Sequences, FiniteSets, TLC

(* ------------------------------ bounds -------------------------------- *)
\* largest max_turns an agent is constructed with
MaxTurns == 2
\* longest Response.content the model returns
MaxResp == 2
\* invocations of invoke() on one agent
MaxInvocations == 2
\* messages the model returns over the life of one agent (all Responses of
\* all its invocations together)
MaxMessages == 2

(* --------------------------- program constants ------------------------ *)
\* retries=5 of the decorator on _call_llm_api_with_retry (commented out)
RETRIES == 5

(* ------------------------------ vocabulary ---------------------------- *)
\* the agent's type tag (self.type); a Response message carries no tag yet
AgentType == "developer"
NoAgent == "none"

\* names of the tools the agent was constructed with (keys of self.tool_map)
tool_map == {"read_file"}
\* the (tool_use_id, tool_name) pairs a model may put in a ToolUse: either id
\* with the registered tool, and a tool that is not registered
ToolCalls == {<<"id1", "read_file">>, <<"id2", "read_file">>,
              <<"id1", "no_such_tool">>}
NoValue == "-"

\* the optional prompt argument of invoke
Prompts == {"None", "fix the bug"}

TextMessage(role, agent) ==
    [type |-> "text", role |-> role, agent |-> agent,
     tool_use_id |-> NoValue, tool_name |-> NoValue, error |-> FALSE]

ToolUseMessage(id, name, agent) ==
    [type |-> "tool_use", role |-> "assistant", agent |-> agent,
     tool_use_id |-> id, tool_name |-> name, error |-> FALSE]

ToolUseResultMessage(id, name, err, agent) ==
    [type |-> "tool_use_result", role |-> "user", agent |-> agent,
     tool_use_id |-> id, tool_name |-> name, error |-> err]

\* the Messages a client's _convert_llm_response can put in LLMResponse.content
ResponseMessages ==
    {TextMessage("assistant", NoAgent)} \cup
    {ToolUseMessage(c[1], c[2], NoAgent) : c \in ToolCalls}

SeqsUpTo(S, n) == UNION {[1..k -> S] : k \in 0..n}

\* LLMResponse.content values
Responses == SeqsUpTo(ResponseMessages, MaxResp)

\* ToolResult values a tool's execute returns: success and the error field
\* (None or an error text)
ToolErrors == {"None", "boom"}
ToolResults == [success : BOOLEAN, error : ToolErrors]

\* Python's bool() of an Optional[str]
bool(e) == e \notin {"None", ""}

(* -------------------------------- state ------------------------------- *)
VARIABLES
    max_turns,            \* self.max_turns
    fallback_llm_client,  \* TRUE iff self.fallback_llm_client is not None
    messages,             \* self.messages, the transcript
    pc,                   \* position of the generator body
    prompt,               \* the prompt argument of the current invocation
    turn,                 \* iterations of "for _ in range(max_turns)" started
    response,             \* response.content of the current turn
    idx,                  \* messages of response taken by the inner for loop
    has_tool_use,         \* the local has_tool_use
    demand,               \* TRUE while the consumer awaits __anext__
    emitted,              \* messages yielded by the current invocation
    error,                \* exception that ended the invocation
    \* history variables
    invocations,          \* invoke() calls made on the agent
    primaryCalls,         \* llm_client.complete calls, current invocation
    turnFallbackCalls,    \* fallback complete calls, current turn
    returned,             \* messages returned by the model, life of the agent
    netAttempts,          \* _call_llm_api calls made by each client's last complete
    toolExecs,            \* tool.execute calls, current invocation
    lastResult,           \* ToolResult of the last execute ("none" before it)
    turnStart,            \* Len(messages) when the turn's Response arrived
    sentArgs,             \* transcript passed to primary / fallback this turn
    calls,                \* this turn's complete call of each client
    turnKinds,            \* shape of each Response, current invocation
    \* the adapter layer (llm/clients, llm/llm_models.py), outside the loop
    fn                    \* one call of an adapter function: input and output

vars == <<max_turns, fallback_llm_client, messages, pc, prompt, turn, response,
          idx, has_tool_use, demand, emitted, error, invocations, primaryCalls, turnFallbackCalls, returned,
          netAttempts, toolExecs, lastResult, turnStart, sentArgs, calls,
          turnKinds, fn>>

config == <<max_turns, fallback_llm_client>>
history == <<invocations, primaryCalls, turnFallbackCalls, returned, netAttempts, toolExecs, lastResult, turnStart, sentArgs,
             calls, turnKinds>>

NoArgs == [primary |-> <<>>, fallback |-> <<>>]
NoAttempts == [primary |-> 0, fallback |-> 0]
\* no complete call was made in this turn yet
NoCalls == [primary |-> "idle", fallback |-> "idle"]
\* no adapter function is being followed
NoFn == [op |-> "none"]

\* BaseAgent.__init__
Init ==
    /\ max_turns \in 0..MaxTurns
    /\ fallback_llm_client \in BOOLEAN
    /\ messages = <<>>
    /\ pc = "idle"
    /\ prompt = "None"
    /\ turn = 0
    /\ response = <<>>
    /\ idx = 0
    /\ has_tool_use = FALSE
    /\ demand = FALSE
    /\ emitted = <<>>
    /\ error = "none"
    /\ invocations = 0
    /\ primaryCalls = 0
    /\ turnFallbackCalls = 0
    /\ returned = 0
    /\ netAttempts = NoAttempts
    /\ toolExecs = 0
    /\ lastResult = "none"
    /\ turnStart = 0
    /\ sentArgs = NoArgs
    /\ calls = NoCalls
    /\ turnKinds = <<>>
    /\ fn = NoFn

(* ------------------------- pieces of the body -------------------------- *)
Finished == {"idle", "done", "failed", "abandoned"}
Suspended == {"created", "yield_msg", "yield_res"}

\* network attempts one _call_llm_api_with_retry makes: the retry decorator
\* is commented out, the wrapper calls _call_llm_api once
AttemptsPerCall == 1

\* an off-by-one loop bound: one iteration too many
RangeHasNext_OneMore(t, n) == t <= n

\* "for _ in range(self.max_turns)": is there another iteration
RangeHasNext(t, n) == t < n

\* the fallback branch taken without the None check
HasFallback_Unchecked(fb) == TRUE

\* "if self.fallback_llm_client is not None"
HasFallback(fb) == fb

\* a lookup that never misses (the "if not tool: raise" left out)
Registered_Always(name) == TRUE

\* "tool = self.tool_map.get(name)" followed by "if not tool: raise"
Registered(name) == name \in tool_map

\* 'message["agent"] = self.type'
Tag(m) == [m EXCEPT !.agent = AgentType]

\* a result that carries a stale correlation id instead of the ToolUse's
ResultFor_StaleId(m, res) ==
    ToolUseResultMessage("id1", m.tool_name, bool(res.error), AgentType)

\* the tool_use_result_message built from the ToolUse and the ToolResult
ResultFor(m, res) ==
    ToolUseResultMessage(m.tool_use_id, m.tool_name, bool(res.error), AgentType)

\* an eager producer: the body runs on whether or not the consumer asks
Running_Eager == TRUE

\* the body of an async generator runs only inside an awaited __anext__
Running == demand

\* a store that keeps one slot for the newest message: it overwrites the last
AppendMessage_Overwrite(q, m) ==
    IF q = <<>> THEN <<m>> ELSE [q EXCEPT ![Len(q)] = m]

\* "self.messages.append(m)", the only statement that changes the transcript
AppendMessage(q, m) == Append(q, m)

\* the except handler is entered only after the await of the primary's
\* complete has ended with the exception
Raised(cs, c) == [cs EXCEPT ![c] = "raised"]

\* a hedged call: the fallback is started beside whatever is in flight, and
\* the primary's call is left as it was
StartFallback_Hedged(cs) ==
    [primary |-> "in_flight", fallback |-> "in_flight"]

\* "response = await self.fallback_llm_client.complete(...)" in the handler
StartFallback(cs) == [cs EXCEPT !.fallback = "in_flight"]

\* shape of a Response.content: one ToolUse of a registered tool, one Text,
\* or anything else
KindOf(r) ==
    IF Len(r) # 1 THEN "other"
    ELSE IF r[1].type = "text" THEN "text"
    ELSE IF r[1].type = "tool_use" /\ Registered(r[1].tool_name) THEN "tool"
    ELSE "other"

HasNoToolUse(r) == \A i \in 1..Len(r) : r[i].type # "tool_use"

\* head of the outer for loop, reached without suspending
LoopHead ==
    IF RangeHasNext(turn, max_turns)
    THEN pc' = "turn" /\ demand' = demand
    ELSE pc' = "done" /\ demand' = FALSE

\* head of "for message in response.content" after i messages were taken
\* from resp: tag, append and yield the next one, or leave the inner loop
ForMessage(resp, i) ==
    IF i < Len(resp)
    THEN /\ messages' = AppendMessage(messages, Tag(resp[i + 1]))
         /\ emitted' = Append(emitted, Tag(resp[i + 1]))
         /\ idx' = i + 1
         /\ pc' = "yield_msg"
         /\ demand' = FALSE
    ELSE /\ idx' = i
         /\ UNCHANGED <<messages, emitted>>
         /\ LoopHead

\* "if not has_tool_use: break", the last statement of the inner loop body
EndOfBody(htu) ==
    IF ~htu
    THEN UNCHANGED <<messages, emitted, idx>> /\ LoopHead
    ELSE ForMessage(response, idx)

\* an exception leaves the generator
Raise(e) ==
    /\ pc' = "failed"
    /\ error' = e
    /\ demand' = FALSE

(* ------------------------------ consumer ------------------------------- *)
\* a generator that is not there (never created, or dropped by its consumer)
\* has no frame: its locals and the history kept about it are forgotten
NoFrame ==
    /\ prompt' = "None"
    /\ turn' = 0
    /\ response' = <<>>
    /\ idx' = 0
    /\ has_tool_use' = FALSE
    /\ demand' = FALSE
    /\ emitted' = <<>>
    /\ error' = "none"
    /\ primaryCalls' = 0
    /\ turnFallbackCalls' = 0
    /\ netAttempts' = NoAttempts
    /\ toolExecs' = 0
    /\ lastResult' = "none"
    /\ sentArgs' = NoArgs
    /\ calls' = NoCalls
    /\ turnKinds' = <<>>

\* agent.invoke(context, prompt): creates the generator, runs nothing yet
Invoke(p) ==
    /\ pc \in Finished
    /\ invocations < MaxInvocations
    /\ prompt' = p
    /\ pc' = "created"
    /\ demand' = FALSE
    /\ turn' = 0
    /\ response' = <<>>
    /\ idx' = 0
    /\ has_tool_use' = FALSE
    /\ emitted' = <<>>
    /\ error' = "none"
    /\ invocations' = invocations + 1
    /\ primaryCalls' = 0
    /\ turnFallbackCalls' = 0
    /\ netAttempts' = NoAttempts
    /\ toolExecs' = 0
    /\ lastResult' = "none"
    /\ turnStart' = Len(messages)
    /\ sentArgs' = NoArgs
    /\ calls' = NoCalls
    /\ turnKinds' = <<>>
    /\ UNCHANGED <<config, fn, messages, returned>>

\* the consumer awaits __anext__ ("async for" asks for the next message)
Pull ==
    /\ pc \in Suspended
    /\ ~demand
    /\ demand' = TRUE
    /\ UNCHANGED <<config, fn, messages, pc, prompt, turn, response, idx,
                   has_tool_use, emitted, error, history>>

\* the consumer stops consuming and drops the generator (aclose raises
\* GeneratorExit at the yield; the body has no finally or except for it)
Abandon ==
    /\ pc \in Suspended
    /\ ~demand
    /\ pc' = "abandoned"
    /\ NoFrame
    /\ UNCHANGED <<config, fn, messages, invocations, returned, turnStart>>

(* ----------------------------- generator ------------------------------ *)
\* lines 53-62: the optional prompt is appended, then the loop is entered
Start ==
    /\ pc = "created"
    /\ Running
    /\ messages' = IF prompt # "None"
                   THEN AppendMessage(messages, TextMessage("user", AgentType))
                   ELSE messages
    /\ LoopHead
    /\ UNCHANGED <<config, fn, prompt, turn, response, idx, has_tool_use,
                   emitted, error, history>>

\* lines 64-72: a turn starts, llm_client.complete is awaited
CallPrimary ==
    /\ pc = "turn"
    /\ Running
    /\ turn' = turn + 1
    /\ pc' = "primary"
    /\ primaryCalls' = primaryCalls + 1
    /\ turnFallbackCalls' = 0
    /\ netAttempts' = NoAttempts
    /\ sentArgs' = [primary |-> messages, fallback |-> <<>>]
    /\ calls' = [primary |-> "in_flight", fallback |-> "idle"]
    \* the previous turn's response, its iterator and has_tool_use are dead from
    \* here on (reassigned at lines 68, 92 and 94 before any read)
    /\ response' = <<>>
    /\ idx' = 0
    /\ has_tool_use' = FALSE
    /\ UNCHANGED <<config, fn, messages, prompt, returned,
                   demand, emitted, error, invocations,
                   toolExecs, lastResult, turnStart, turnKinds>>

\* complete returned r: lines 91-99 up to the first yield
Receive(c, r) ==
    /\ pc = c
    /\ Running
    /\ returned + Len(r) <= MaxMessages
    /\ returned' = returned + Len(r)
    /\ response' = r
    /\ has_tool_use' = FALSE
    /\ netAttempts' = [netAttempts EXCEPT ![c] = AttemptsPerCall]
    /\ turnStart' = Len(messages)
    /\ calls' = [calls EXCEPT ![c] = "returned"]
    /\ turnKinds' = Append(turnKinds, KindOf(r))
    /\ ForMessage(r, 0)
    /\ UNCHANGED <<config, fn, prompt, turn, error, invocations, primaryCalls,
                   turnFallbackCalls, toolExecs, lastResult, sentArgs>>

PrimaryReturn(r) == Receive("primary", r)

FallbackReturn(r) == Receive("fallback", r)

\* lines 74-89: the network call of llm_client.complete failed, complete raised
PrimaryRaise ==
    /\ pc = "primary"
    /\ Running
    /\ netAttempts' = [netAttempts EXCEPT !.primary = AttemptsPerCall]
    /\ IF HasFallback(fallback_llm_client)
       THEN /\ pc' = "fallback"
            /\ turnFallbackCalls' = turnFallbackCalls + 1
            /\ sentArgs' = [sentArgs EXCEPT !.fallback = messages]
            /\ calls' = StartFallback(Raised(calls, "primary"))
            /\ UNCHANGED <<error, demand>>
       ELSE /\ Raise("client")
            /\ calls' = Raised(calls, "primary")
            /\ UNCHANGED <<turnFallbackCalls,
                           sentArgs>>
    /\ UNCHANGED <<config, fn, messages, prompt, turn, response, idx,
                   has_tool_use, emitted, invocations, primaryCalls,
                   returned, toolExecs, lastResult, turnStart, turnKinds>>

\* lines 85-86: the network call of fallback_llm_client.complete failed too
FallbackRaise ==
    /\ pc = "fallback"
    /\ Running
    /\ netAttempts' = [netAttempts EXCEPT !.fallback = AttemptsPerCall]
    /\ Raise("client")
    /\ calls' = Raised(calls, "fallback")
    /\ UNCHANGED <<config, fn, messages, prompt, turn, response, idx,
                   has_tool_use, emitted, invocations, primaryCalls, turnFallbackCalls, returned,
                   toolExecs, lastResult, turnStart, sentArgs, turnKinds>>

\* lines 101-118: resumed after yielding a ToolUse of a registered tool
HandleToolUse(res) ==
    /\ pc = "yield_msg"
    /\ Running
    /\ response[idx].type = "tool_use"
    /\ Registered(response[idx].tool_name)
    /\ has_tool_use' = TRUE
    /\ toolExecs' = toolExecs + 1
    /\ lastResult' = res
    /\ messages' = AppendMessage(messages, ResultFor(response[idx], res))
    /\ emitted' = Append(emitted, ResultFor(response[idx], res))
    /\ pc' = "yield_res"
    /\ demand' = FALSE
    /\ UNCHANGED <<config, fn, prompt, turn, response, idx, error, invocations,
                   primaryCalls, turnFallbackCalls, returned, netAttempts,
                   turnStart, sentArgs, calls, turnKinds>>

\* lines 101-103 and 124-128: the ToolUse names no registered tool
ToolNotFound ==
    /\ pc = "yield_msg"
    /\ Running
    /\ response[idx].type = "tool_use"
    /\ ~Registered(response[idx].tool_name)
    /\ has_tool_use' = TRUE
    /\ Raise("tool_not_found")
    /\ UNCHANGED <<config, fn, messages, prompt, turn, response, idx, emitted,
                   history>>

\* lines 101 and 120-122: resumed after yielding a message that is no ToolUse
AfterText ==
    /\ pc = "yield_msg"
    /\ Running
    /\ response[idx].type # "tool_use"
    /\ EndOfBody(has_tool_use)
    /\ UNCHANGED <<config, fn, prompt, turn, response, has_tool_use, error,
                   history>>

\* lines 118-122: resumed after yielding a ToolUseResult
AfterResult ==
    /\ pc = "yield_res"
    /\ Running
    /\ EndOfBody(has_tool_use)
    /\ lastResult' = "none"
    /\ UNCHANGED <<config, fn, prompt, turn, response, has_tool_use, error,
                   invocations, primaryCalls, turnFallbackCalls, returned, netAttempts, toolExecs, turnStart, sentArgs,
                   calls, turnKinds>>

Next ==
    \/ \E p \in Prompts : Invoke(p)
    \/ Pull
    \/ Abandon
    \/ Start
    \/ CallPrimary
    \/ \E r \in Responses : PrimaryReturn(r)
    \/ \E r \in Responses : FallbackReturn(r)
    \/ PrimaryRaise
    \/ FallbackRaise
    \/ \E res \in ToolResults : HandleToolUse(res)
    \/ ToolNotFound
    \/ AfterText
    \/ AfterResult

Spec == Init /\ [][Next]_vars

TypeOK ==
    /\ max_turns \in 0..MaxTurns
    /\ fallback_llm_client \in BOOLEAN
    /\ pc \in Finished \cup Suspended \cup {"turn", "primary", "fallback"}
    /\ idx \in 0..Len(response)
    /\ turn \in 0..max_turns
    /\ error \in {"none", "client", "tool_not_found"}

(* ------------------------------ properties ----------------------------- *)
Last(q) == q[Len(q)]

IsToolUse(m) == m.type = "tool_use"
IsResult(m) == m.type = "tool_use_result"

\* the messages of q that are no ToolUseResult
WithoutResults(q) == SelectSeq(q, LAMBDA m : ~IsResult(m))

\* the last n elements of q
LastN(q, n) == SubSeq(q, Len(q) - n + 1, Len(q))

\* C1: one invocation issues at most max_turns complete calls to the primary
\* client: the count never exceeds max_turns, and the loop stands before
\* another call only while the budget is not used up.
C1_AtMostMaxTurns ==
    /\ primaryCalls <= max_turns
    /\ primaryCalls = turn
    /\ pc \in {"turn"} => primaryCalls < max_turns
    /\ pc = "done" => ~demand

\* C1 witness: an invocation that used its whole budget of two turns and ended
C1_Witness == pc = "done" /\ max_turns = 2 /\ primaryCalls = 2

\* C2 (as claimed): after a turn whose Response holds no ToolUse the loop
\* issues no further complete call.
C2_StopsAfterNoToolUse ==
    [][(pc = "turn" /\ pc' = "primary") =>
          (turn = 0 \/ ~HasNoToolUse(response))]_vars

UnansweredBefore(i, j) ==
    /\ IsToolUse(messages[i])
    /\ messages[i].tool_use_id = messages[j].tool_use_id
    /\ \A k \in (i + 1)..(j - 1) :
          ~(IsResult(messages[k])
            /\ messages[k].tool_use_id = messages[j].tool_use_id)

\* C4 (as claimed): every ToolUseResult of the transcript has exactly one
\* preceding unanswered ToolUse with its id, and no tool_use_id is answered by
\* two ToolUseResult messages.
C4_NoIdAnsweredTwice ==
    /\ \A j \in 1..Len(messages) :
          IsResult(messages[j]) =>
             Cardinality({i \in 1..(j - 1) : UnansweredBefore(i, j)}) = 1
    /\ \A i, j \in 1..Len(messages) :
          (i < j /\ IsResult(messages[i]) /\ IsResult(messages[j])) =>
              messages[i].tool_use_id # messages[j].tool_use_id

\* C5 (as claimed): when the loop leaves a turn, every message of the turn's
\* Response was taken, tagged, appended and emitted, in Response order.
C5_EveryMessageProcessed ==
    (pc \in {"turn", "done"} /\ turn > 0) =>
        /\ idx = Len(response)
        /\ WithoutResults(LastN(messages, Len(messages) - turnStart))
              = [i \in 1..Len(response) |-> Tag(response[i])]
        /\ WithoutResults(LastN(emitted, Len(messages) - turnStart))
              = [i \in 1..Len(response) |-> Tag(response[i])]

\* C6: the fallback is called only when it is configured and the primary
\* failed, at most once a turn and with the transcript the primary got; its
\* Response is processed like the primary's; a failure with no fallback, or
\* of the fallback, ends the invocation with the error.
C6_FallbackOnce ==
    /\ turnFallbackCalls <= 1
    /\ turnFallbackCalls = 1 =>
          /\ fallback_llm_client
          /\ netAttempts.primary = AttemptsPerCall
          /\ sentArgs.fallback = sentArgs.primary
    /\ pc = "fallback" => (turnFallbackCalls = 1 /\ sentArgs.fallback = messages)
    /\ pc = "primary" => (turnFallbackCalls = 0 /\ sentArgs.primary = messages)
    /\ pc = "yield_msg" =>
          /\ Last(messages) = Tag(response[idx])
          /\ Last(emitted) = Tag(response[idx])
    /\ error = "client" =>
          /\ pc = "failed"
          /\ ~demand
          /\ turnFallbackCalls = (IF fallback_llm_client THEN 1 ELSE 0)
          /\ messages = sentArgs.primary

\* C6 witness: the primary failed and the fallback's Response is being processed
C6_Witness ==
    /\ pc = "yield_msg"
    /\ turnFallbackCalls = 1
    /\ response # <<>>

\* C7 (as claimed): a complete whose network call keeps failing fails only
\* after the configured retry count of network attempts.
C7_FailsAfterRetries ==
    (error = "client" /\ ~fallback_llm_client) => netAttempts.primary = RETRIES

\* C8: a ToolUse that names an unregistered tool is the last message of the
\* invocation: after it was emitted the invocation fails with tool-not-found,
\* no tool runs for it and no ToolUseResult is appended for it.
C8_ToolNotFoundPropagates ==
    /\ error = "tool_not_found" =>
          /\ pc = "failed"
          /\ ~demand
          /\ emitted # <<>>
          /\ IsToolUse(Last(emitted))
          /\ Last(emitted).tool_name \notin tool_map
          /\ Last(messages) = Last(emitted)
    /\ \A i \in 1..Len(emitted) :
          (IsToolUse(emitted[i]) /\ emitted[i].tool_name \notin tool_map) =>
             /\ i = Len(emitted)
             /\ pc \in {"yield_msg", "failed"}
             /\ pc = "failed" => error = "tool_not_found"
    /\ toolExecs = Len(SelectSeq(emitted, IsResult))

\* C8 witness: an invocation failed with tool-not-found
C8_Witness == error = "tool_not_found" /\ pc = "failed"

\* C9 (as claimed): the error flag of a ToolUseResult is the negation of the
\* ToolResult's success.
C9_ErrorIffNotSuccess ==
    pc = "yield_res" => (Last(messages).error = ~lastResult.success)

\* C10: the stream is pull-driven: a complete call starts, a tool runs and the
\* transcript grows only while the consumer awaits the next message, and each
\* emission hands control back to the consumer.
C10_PullDriven ==
    [][/\ (\/ toolExecs' > toolExecs
           \/ (pc' \in {"primary", "fallback"} /\ pc' # pc)
           \/ messages' # messages) => demand
       /\ Len(emitted') > Len(emitted) => ~demand']_vars

\* C10 witness: the consumer has not asked again after an emitted ToolUse of a
\* registered tool, and the tool has not run
C10_Witness ==
    /\ pc = "yield_msg"
    /\ ~demand
    /\ IsToolUse(Last(emitted))
    /\ Last(emitted).tool_name \in tool_map
    /\ toolExecs = 0

\* q is an initial segment of r
IsPrefix(q, r) == Len(q) <= Len(r) /\ SubSeq(r, 1, Len(q)) = q

\* C11: the transcript is append-only: across every step, the failure of the
\* invocation included, the earlier transcript is an initial segment of the
\* later one, a step adds at most one message, and what the invocation has
\* emitted stays the end of the transcript.
C11_AppendOnly ==
    [][/\ IsPrefix(messages, messages')
       /\ Len(messages') <= Len(messages) + 1
       /\ pc' = "failed" => messages' = messages
       /\ LastN(messages', Len(emitted')) = emitted']_vars

\* C11 witness: an invocation failed in its second turn, after the first
\* turn's messages were emitted and appended
C11_Witness ==
    /\ pc = "failed"
    /\ error = "client"
    /\ turn = 2
    /\ emitted # <<>>
    /\ LastN(messages, Len(emitted)) = emitted

\* the messages appended since the current turn's Response arrived
ThisTurn == LastN(messages, Len(messages) - turnStart)

\* C12 (as claimed): in every turn at most one tool is executed, whatever the
\* Response contains: the turn's part of the transcript holds at most one
\* ToolUseResult.
C12_OneToolPerTurn == Len(SelectSeq(ThisTurn, IsResult)) <= 1

\* the clients whose complete call is awaited
InFlight == {c \in {"primary", "fallback"} : calls[c] = "in_flight"}

\* C13: primary and fallback are strictly sequential: at most one complete
\* call is in flight, the fallback's call exists in a turn only after the
\* primary's call of that turn has ended with a failure, and never in a turn
\* whose primary call returned a Response.
C13_Sequential ==
    /\ Cardinality(InFlight) <= 1
    /\ calls.fallback # "idle" => calls.primary = "raised"
    /\ calls.primary = "returned" => (calls.fallback = "idle" /\ turnFallbackCalls = 0)
    /\ (pc = "primary") = (calls.primary = "in_flight")
    /\ (pc = "fallback") = (calls.fallback = "in_flight")
    /\ turnFallbackCalls = (IF calls.fallback = "idle" THEN 0 ELSE 1)

\* C13 witness: in the second turn the primary failed and the fallback, called
\* after it, returned a Response
C13_Witness ==
    /\ turn = 2
    /\ calls = [primary |-> "raised", fallback |-> "returned"]
    /\ pc = "yield_msg"

\* C14 (as claimed): when complete returns a Response with empty content, the
\* invocation ends there: the generator is done, nothing is emitted and no
\* tool runs.
C14_EmptyContentEnds ==
    [][(pc \in {"primary", "fallback"} /\ calls'[pc] = "returned"
        /\ response' = <<>>) =>
          /\ pc' = "done"
          /\ error' = "none"
          /\ emitted' = emitted
          /\ toolExecs' = toolExecs]_vars

\* the Responses of the scenario: one ToolUse of a registered tool on each
\* of the turns 1..n-1 and one Text on turn n
Scenario(n) == [k \in 1..n |-> IF k < n THEN "tool" ELSE "text"]

\* C15: with max_turns = N >= 1 and a model that follows the scenario, the
\* invocation makes exactly N complete calls that each return a Response,
\* runs exactly N-1 tools, emits the N-1 ToolUse/ToolUseResult pairs and the
\* Text of turn N last, and ends without error; it does not end before turn N.
C15_Scenario ==
    /\ (max_turns >= 1 /\ turnKinds = Scenario(max_turns)) =>
          /\ primaryCalls = max_turns
          /\ Len(turnKinds) = max_turns
          /\ toolExecs = max_turns - 1
          /\ Len(emitted) = 2 * max_turns - 1
          /\ Last(emitted) = TextMessage("assistant", AgentType)
          /\ \A i \in 1..(max_turns - 1) :
                IsToolUse(emitted[2 * i - 1]) /\ IsResult(emitted[2 * i])
          /\ pc \in {"yield_msg", "done"}
          /\ error = "none"
    /\ (turnKinds # <<>> /\ Len(turnKinds) < max_turns
        /\ \A k \in 1..Len(turnKinds) : turnKinds[k] = "tool") =>
          /\ pc # "done"
          /\ primaryCalls \in {Len(turnKinds), Len(turnKinds) + 1}

\* C15 witness: the scenario with N = MaxTurns ran to its end
C15_Witness ==
    /\ max_turns = MaxTurns
    /\ turnKinds = Scenario(MaxTurns)
    /\ pc = "done"
    /\ toolExecs = MaxTurns - 1

(***************************************************************************)
(* The adapter layer: the model registry (llm/llm_models.py), the client   *)
(* constructors (llm/__init__.py, llm/base.py) and the three adapters      *)
(* (llm/clients).  These are functions of their arguments: a behaviour of   *)
(* AdapterSpec picks one call and its input, and one step computes the      *)
(* output as the code computes it.  The agent of the loop is not running.  *)
(***************************************************************************)
\* the output of a call that was not made yet
Pending == [pending |-> TRUE]

\* ModelProvider
Providers == {"anthropic", "openai", "gemini"}

LLMModel(name, provider, snapshots, has_reasoning) ==
    [name |-> name, provider |-> provider, snapshots |-> snapshots,
     has_reasoning |-> has_reasoning]

\* the registry MODELS (pricing and context window left out)
MODELS ==
    {LLMModel("claude-haiku-4-5", "anthropic", <<"claude-haiku-4-5-20251001">>, FALSE),
     LLMModel("claude-sonnet-4-5", "anthropic", <<"claude-sonnet-4-5-20250929">>, TRUE),
     LLMModel("claude-opus-4-5", "anthropic", <<"claude-opus-4-5-20251101">>, TRUE),
     LLMModel("gpt-5-mini", "openai", <<"gpt-5-mini-2025-08-07">>, TRUE),
     LLMModel("gpt-5", "openai", <<"gpt-5-2025-08-07">>, TRUE),
     LLMModel("gpt-5.1", "openai", <<"gpt-5.1-2025-11-13">>, TRUE),
     LLMModel("gpt-5-pro", "openai", <<"gpt-5-pro-2025-10-06">>, TRUE),
     LLMModel("gemini-2.5-flash-lite", "gemini", <<>>, FALSE),
     LLMModel("gemini-2.5-flash", "gemini", <<>>, FALSE),
     LLMModel("gemini-2.5-pro", "gemini", <<>>, FALSE)}

Range(q) == {q[i] : i \in 1..Len(q)}

\* the registry entries a name or snapshot alias denotes (none or one)
ModelsNamed(id) == {m \in MODELS : m.name = id \/ id \in Range(m.snapshots)}

\* get_model_by_name_or_snapshot(name_or_version) is not None
IsRegistered(id) == ModelsNamed(id) # {}

\* validate_model(provider, model)
validate_model(provider, id) ==
    \E m \in ModelsNamed(id) : m.provider = provider

\* is_reasoning_model(model)
is_reasoning_model(id) == \E m \in ModelsNamed(id) : m.has_reasoning

\* model ids a configuration may name: every name, every snapshot alias and
\* an id the registry does not know
ModelIds ==
    {m.name : m \in MODELS} \cup UNION {Range(m.snapshots) : m \in MODELS}
        \cup {"no-such-model"}

\* LLMClientConfig (the api key plays no part)
Configs == [provider : Providers, model : ModelIds, reasoning_enabled : BOOLEAN]

\* the abstract methods of BaseLLMClient
AbstractMethods ==
    {"complete", "_call_llm_api", "_convert_message", "_convert_tool",
     "_convert_llm_response", "close"}

\* the methods each adapter class defines
Defines(provider) ==
    IF provider = "gemini"
    THEN {"send_message", "_call_llm_api", "_convert_message", "_convert_tool",
          "_convert_llm_response", "close"}
    ELSE AbstractMethods

\* an ABC with an abstract method left cannot be instantiated
Instantiable(provider) == AbstractMethods \subseteq Defines(provider)

\* positional arguments create_llm_client passes to the adapter class
FactoryArgs == 1
\* positional arguments the adapter __init__ passes to super().__init__
SuperArgs == 4
\* the parameters after self of the adapter __init__ (model, api_key,
\* reasoning=False) and of BaseLLMClient.__init__ (config)
SubclassParams == [required |-> 2, accepted |-> 3]
BaseParams == [required |-> 1, accepted |-> 1]

\* Python binds a call's positional arguments to a signature
Binds(given, params) == params.required <= given /\ given <= params.accepted

\* BaseLLMClient._validate_model as called from __init__: the reasoning check
\* reads self.reasoning_enabled, which __init__ assigns only afterwards
BaseInit(cfg) ==
    IF ~validate_model(cfg.provider, cfg.model) THEN "ValueError: invalid model"
    ELSE "AttributeError"

\* create_llm_client(config): the adapter class is called with the config
CreateClient(cfg) ==
    IF ~Instantiable(cfg.provider) THEN "TypeError"
    ELSE IF ~Binds(FactoryArgs, SubclassParams) THEN "TypeError"
    ELSE IF ~Binds(SuperArgs, BaseParams) THEN "TypeError"
    ELSE BaseInit(cfg)

ConstructCalls ==
    {[op |-> "create_llm_client", in |-> c, done |-> FALSE, out |-> Pending] :
        c \in Configs}

(* ------------------------- the outgoing request ------------------------ *)
\* largest max_tokens argument of complete
MaxTokens == 3

\* a key the request does not carry
Absent == [absent |-> TRUE]

\* the arguments of complete that decide the request's keys: are there tools,
\* is there a system message, self.reasoning_enabled, max_tokens
RequestInputs ==
    [adapter : Providers, tools : BOOLEAN, system_message : BOOLEAN,
     reasoning_enabled : BOOLEAN, max_tokens : 0..MaxTokens]

\* AnthropicClient.complete: the args passed to messages.create
AnthropicRequest(a) ==
    [max_tokens |-> a.max_tokens,
     tool_choice |-> [type |-> "auto", disable_parallel_tool_use |-> TRUE],
     system |-> a.system_message,
     tools |-> a.tools,
     thinking |-> IF a.reasoning_enabled
                  THEN [type |-> "enabled", budget_tokens |-> a.max_tokens \div 2]
                  ELSE Absent]

\* OpenAIClient.complete: the args passed to responses.create
OpenAIRequest(a) ==
    [max_output_tokens |-> a.max_tokens,
     parallel_tool_calls |-> FALSE,
     store |-> FALSE,
     instructions |-> a.system_message,
     tools |-> a.tools,
     reasoning |-> IF a.reasoning_enabled
                   THEN [effort |-> "medium", summary |-> "auto"]
                   ELSE Absent,
     include |-> IF a.reasoning_enabled
                 THEN <<"reasoning.encrypted_content">>
                 ELSE <<>>]

\* GeminiClient.send_message: the args passed to models.generate_content
GeminiRequest(a) ==
    [config |-> [max_output_tokens |-> a.max_tokens,
                 tools |-> a.tools,
                 system_instruction |-> a.system_message]]

BuildRequest(a) ==
    IF a.adapter = "anthropic" THEN AnthropicRequest(a)
    ELSE IF a.adapter = "openai" THEN OpenAIRequest(a)
    ELSE GeminiRequest(a)

RequestCalls ==
    {[op |-> "complete", in |-> a, done |-> FALSE, out |-> Pending] :
        a \in RequestInputs}

\* does a request tell the vendor not to return parallel tool calls
ParallelToolCallsDisabled(req) ==
    \/ "tool_choice" \in DOMAIN req /\ req.tool_choice.disable_parallel_tool_use
    \/ "parallel_tool_calls" \in DOMAIN req /\ ~req.parallel_tool_calls

(* ------------------------- the vendor response ------------------------- *)
\* longest vendor response (content blocks, output items, parts)
MaxBlocks == 3

\* Python's None where the value is an object
None == [none |-> TRUE]

\* StopReason
StopReason ==
    {"end_turn", "max_tokens", "stop_sequence", "tool_use", "content_filter",
     "recitation", "error", "no_candidates", "unknown"}

\* the vendor's completion status: every status the adapter maps, one it does
\* not map, and an absent one (None or the empty string)
VendorStatuses(adapter) ==
    IF adapter = "anthropic"
    THEN {"end_turn", "max_tokens", "stop_sequence", "tool_use", "refusal",
          "None", ""}
    ELSE IF adapter = "openai"
    THEN {"completed", "incomplete", "failed", "cancelled", "None", ""}
    ELSE {"STOP", "MAX_TOKENS", "SAFETY", "RECITATION", "OTHER", "BLOCKLIST",
          "None", ""}

\* the adapter's stop_reason_map, as (vendor status, StopReason) pairs
stop_reason_map(adapter) ==
    IF adapter = "anthropic"
    THEN {<<"end_turn", "end_turn">>, <<"max_tokens", "max_tokens">>,
          <<"stop_sequence", "stop_sequence">>, <<"tool_use", "tool_use">>}
    ELSE IF adapter = "openai"
    THEN {<<"completed", "end_turn">>, <<"incomplete", "max_tokens">>,
          <<"failed", "error">>}
    ELSE {<<"STOP", "end_turn">>, <<"MAX_TOKENS", "max_tokens">>,
          <<"SAFETY", "content_filter">>, <<"RECITATION", "recitation">>,
          <<"OTHER", "unknown">>}

\* dict.get(key, default)
Get(map, key, default) ==
    IF \E e \in map : e[1] = key
    THEN (CHOOSE e \in map : e[1] = key)[2]
    ELSE default

\* "stop_reason_map.get(status, StopReason.UNKNOWN) if status else None"
ConvertStatus(adapter, status) ==
    IF bool(status)
    THEN Get(stop_reason_map(adapter), status, "unknown")
    ELSE "None"

\* ThinkingData
ThinkingData(thinking, metadata, encrypted_content) ==
    [thinking |-> thinking, metadata |-> metadata,
     encrypted_content |-> encrypted_content]

\* the TextMessage and ToolUseMessage dicts the Anthropic and OpenAI adapters
\* build (arguments left out)
LLMText(text, td) ==
    [type |-> "text", role |-> "assistant", text |-> text, thinking_data |-> td]

LLMToolUse(id, name, td) ==
    [type |-> "tool_use", role |-> "assistant",
     call |-> [tool_name |-> name, tool_use_id |-> id], thinking_data |-> td]

\* the kinds of block a vendor response is made of.  Anthropic: a thinking
\* block with or without text, text, tool_use, and a block the adapter has no
\* branch for.  OpenAI: a reasoning item with or without a summary, a message
\* of one or two output_text contents or of a refusal, a function_call, and
\* an item the adapter has no branch for.  Gemini: a text part and a
\* function_call part, complete, without id, or with an empty args mapping.
Kinds(adapter) ==
    IF adapter = "anthropic"
    THEN {"thinking", "thinking_empty", "text", "tool_use", "redacted_thinking"}
    ELSE IF adapter = "openai"
    THEN {"reasoning", "reasoning_no_summary", "message", "message2",
          "refusal", "function_call", "web_search_call"}
    ELSE {"text", "function_call", "function_call_no_id",
          "function_call_no_args"}

\* the i-th block of a response; the tokens, texts and call ids the vendor
\* issues are distinct from block to block
AnthropicBlock(kind, i) ==
    IF kind = "thinking"
    THEN [type |-> "thinking", thinking |-> "thoughts", signature |-> [sig |-> i]]
    ELSE IF kind = "thinking_empty"
    THEN [type |-> "thinking", thinking |-> "", signature |-> [sig |-> i]]
    ELSE IF kind = "text"
    THEN [type |-> "text", text |-> [txt |-> i, part |-> 1]]
    ELSE IF kind = "tool_use"
    THEN [type |-> "tool_use", id |-> [call |-> i], name |-> "read_file"]
    ELSE [type |-> "redacted_thinking", data |-> [blob |-> i]]

OutputText(i, j) == [type |-> "output_text", text |-> [txt |-> i, part |-> j]]

OpenAIBlock(kind, i) ==
    IF kind = "reasoning"
    THEN [type |-> "reasoning", id |-> [rs |-> i],
          encrypted_content |-> [blob |-> i],
          summary |-> <<[type |-> "summary_text", text |-> "thoughts"]>>]
    ELSE IF kind = "reasoning_no_summary"
    THEN [type |-> "reasoning", id |-> [rs |-> i],
          encrypted_content |-> [blob |-> i], summary |-> <<>>]
    ELSE IF kind = "message"
    THEN [type |-> "message", content |-> <<OutputText(i, 1)>>]
    ELSE IF kind = "message2"
    THEN [type |-> "message", content |-> <<OutputText(i, 1), OutputText(i, 2)>>]
    ELSE IF kind = "refusal"
    THEN [type |-> "message", content |-> <<[type |-> "refusal"]>>]
    ELSE IF kind = "function_call"
    THEN [type |-> "function_call", call_id |-> [call |-> i], name |-> "read_file"]
    ELSE [type |-> "web_search_call"]

GeminiPart(kind, i) ==
    IF kind = "text"
    THEN [text |-> [txt |-> i, part |-> 1], function_call |-> None]
    ELSE [text |-> None,
          function_call |->
              [name |-> "read_file",
               args |-> IF kind = "function_call_no_args" THEN {} ELSE {"path"},
               id |-> IF kind = "function_call_no_id" THEN None ELSE [call |-> i]]]

Block(adapter, kind, i) ==
    IF adapter = "anthropic" THEN AnthropicBlock(kind, i)
    ELSE IF adapter = "openai" THEN OpenAIBlock(kind, i)
    ELSE GeminiPart(kind, i)

\* what a GenerateContentResponse lacks: nothing, its candidates (None or an
\* empty list), the content of its first candidate, or the parts of that
\* content (None; a response lacking nothing may still have an empty list)
Missing == {"nothing", "candidates", "content", "parts"}

\* the Gemini responses: the parts and finish_reason of the first candidate,
\* or a response that lacks them
GeminiResponses ==
    {[blocks |-> [i \in 1..Len(ks) |-> GeminiPart(ks[i], i)], status |-> st,
      missing |-> "nothing"] :
        ks \in SeqsUpTo(Kinds("gemini"), MaxBlocks),
        st \in VendorStatuses("gemini")}
    \cup {[blocks |-> <<>>, status |-> st, missing |-> m] :
             m \in Missing \ {"nothing"}, st \in VendorStatuses("gemini")}

\* the vendor responses: a sequence of blocks and a completion status
VendorResponses(adapter) ==
    IF adapter = "gemini" THEN GeminiResponses
    ELSE {[blocks |-> [i \in 1..Len(ks) |-> Block(adapter, ks[i], i)],
           status |-> st] :
             ks \in SeqsUpTo(Kinds(adapter), MaxBlocks),
             st \in VendorStatuses(adapter)}

(* -------------------------- _convert_llm_response ---------------------- *)
\* the state of the conversion loop: the messages built so far and the local
\* current_thinking
NoOutput == [out |-> <<>>, ct |-> None]

\* a conversion that leaves the reasoning block in place after attaching it
AfterAttach_Keep(ct) == ct

\* "if current_thinking: current_thinking = None" after a block took it
AfterAttach(ct) == None

\* a content block takes the pending reasoning block
Attach(st, m) == [out |-> Append(st.out, m), ct |-> AfterAttach(st.ct)]

\* AnthropicClient._convert_llm_response, one iteration of the block loop
AnthropicStep(st, b) ==
    IF b.type = "thinking"
    THEN [st EXCEPT !.ct = ThinkingData(b.thinking, b.signature, None)]
    ELSE IF b.type = "text"
    THEN Attach(st, LLMText(b.text, st.ct))
    ELSE IF b.type = "tool_use"
    THEN Attach(st, LLMToolUse(b.id, b.name, st.ct))
    ELSE st

\* OpenAIClient._convert_llm_response, "for content in block.content"
RECURSIVE OpenAIContents(_, _, _)
OpenAIContents(st, contents, j) ==
    IF j > Len(contents) THEN st
    ELSE OpenAIContents(
             IF contents[j].type = "output_text"
             THEN Attach(st, LLMText(contents[j].text, st.ct))
             ELSE st,
             contents, j + 1)

\* OpenAIClient._convert_llm_response, one iteration of the block loop
OpenAIStep(st, b) ==
    IF b.type = "reasoning"
    THEN IF Len(b.summary) > 0 /\ bool(b.summary[1].text)
         THEN [st EXCEPT !.ct = ThinkingData(b.summary[1].text, b.id,
                                             b.encrypted_content)]
         ELSE st
    ELSE IF b.type = "message"
    THEN OpenAIContents(st, b.content, 1)
    ELSE IF b.type = "function_call"
    THEN Attach(st, LLMToolUse(b.call_id, b.name, st.ct))
    ELSE st

\* GeminiClient._convert_llm_response, one iteration of the part loop; the
\* messages it builds have no thinking_data key
\* "part.function_call.id is not None"
HasCallId_Always(function_call) == TRUE
HasCallId(function_call) == function_call.id # None

GeminiStep(st, part) ==
    IF part.text # None
    THEN [st EXCEPT !.out = Append(@,
             [type |-> "text", role |-> "assistant", text |-> part.text])]
    ELSE IF /\ part.function_call # None
            /\ part.function_call.args # {}
            /\ HasCallId(part.function_call)
    THEN [st EXCEPT !.out = Append(@,
             [type |-> "tool_use", role |-> "assistant",
              call |-> [tool_name |-> part.function_call.name,
                        tool_use_id |-> part.function_call.id]])]
    ELSE st

Step(adapter, st, b) ==
    IF adapter = "anthropic" THEN AnthropicStep(st, b)
    ELSE IF adapter = "openai" THEN OpenAIStep(st, b)
    ELSE GeminiStep(st, b)

\* the block loop from block i on
RECURSIVE ConvertBlocks(_, _, _, _)
ConvertBlocks(adapter, st, blocks, i) ==
    IF i > Len(blocks) THEN st
    ELSE ConvertBlocks(adapter, Step(adapter, st, blocks[i]), blocks, i + 1)

\* Gemini: the response has a first candidate with content and with parts
Usable_Unchecked(r) == TRUE
Usable(r) == r.missing = "nothing" /\ r.blocks # <<>>

\* _convert_llm_response: the LLMResponse (usage left out).  Gemini returns
\* the empty response when there is no candidate, content or part.
ConvertResponse(adapter, r) ==
    IF adapter = "gemini" /\ ~Usable(r)
    THEN [content |-> <<>>, stop_reason |-> "no_candidates"]
    ELSE [content |-> ConvertBlocks(adapter, NoOutput, r.blocks, 1).out,
          stop_reason |-> ConvertStatus(adapter, r.status)]

ConvertCalls ==
    UNION {{[op |-> "_convert_llm_response",
             in |-> [adapter |-> a, response |-> r],
             done |-> FALSE, out |-> Pending] : r \in VendorResponses(a)} :
           a \in Providers}

(* ---------------------- the next request's messages -------------------- *)
\* the thinking block AnthropicClient._convert_message puts before the content
\* of a message whose thinking_data is set ("if thinking_data:")
AnthropicThinking(m) ==
    IF m.thinking_data # None
    THEN <<[type |-> "thinking", thinking |-> m.thinking_data.thinking,
            signature |-> m.thinking_data.metadata]>>
    ELSE <<>>

\* AnthropicClient._convert_message for text and tool_use: the MessageParam.
\* The content of a text without thinking data is the bare text, written here
\* as a list of one item of type "str".
AnthropicMessage(m) ==
    [role |-> m.role,
     content |->
        IF m.type = "text"
        THEN IF m.thinking_data # None
             THEN AnthropicThinking(m) \o <<[type |-> "text", text |-> m.text]>>
             ELSE <<[type |-> "str", text |-> m.text]>>
        ELSE IF m.type = "tool_use"
        THEN AnthropicThinking(m)
                 \o <<[type |-> "tool_use", id |-> m.call.tool_use_id,
                       name |-> m.call.tool_name]>>
        ELSE <<[type |-> "tool_result",
                tool_use_id |-> m.call_result.tool_use_id,
                content |-> m.call_result.result,
                is_error |-> m.call_result.error]>>]

\* OpenAIClient._convert_message for text and tool_use
OpenAIMessage(m) ==
    IF m.type = "text"
    THEN [role |-> m.role, content |-> m.text]
    ELSE IF m.type = "tool_use"
    THEN [type |-> "function_call", name |-> m.call.tool_name,
          call_id |-> m.call.tool_use_id]
    ELSE [type |-> "function_call_output",
          call_id |-> m.call_result.tool_use_id,
          output |-> m.call_result.result]

\* OpenAIClient.complete, lines 43-63: the input items of one message
OpenAIItems(m) ==
    (IF m.thinking_data # None
     THEN <<[type |-> "reasoning", id |-> m.thinking_data.metadata,
             encrypted_content |-> m.thinking_data.encrypted_content,
             summary |-> <<[type |-> "summary_text",
                            text |-> m.thinking_data.thinking]>>]>>
     ELSE <<>>) \o <<OpenAIMessage(m)>>

\* the vendor items of a transcript in the order they are sent: the content
\* blocks of Anthropic's messages, the input items of OpenAI's request
RECURSIVE RequestItems(_, _, _)
RequestItems(adapter, msgs, i) ==
    IF i > Len(msgs) THEN <<>>
    ELSE (IF adapter = "anthropic" THEN AnthropicMessage(msgs[i]).content
          ELSE OpenAIItems(msgs[i]))
         \o RequestItems(adapter, msgs, i + 1)

\* a vendor response is converted, its messages enter the transcript as they
\* are (the loop adds the agent tag only) and are serialised for the next call
RoundTrip(adapter, r) ==
    LET content == ConvertResponse(adapter, r).content
    IN  [content |-> content, items |-> RequestItems(adapter, content, 1)]

RoundTripCalls ==
    UNION {{[op |-> "round_trip", in |-> [adapter |-> a, response |-> r],
             done |-> FALSE, out |-> Pending] :
               r \in {v \in VendorResponses(a) : v.status = "None"}} :
           a \in {"anthropic", "openai"}}

(* ---------------------------- _convert_message ------------------------- *)
\* the data a tool returns: a text, a text that is a JSON document, None, a
\* number, a dict and a list
ToolData ==
    {[text |-> "contents"], [text |-> "{\"ok\": true}"], [none |-> TRUE],
     [int |-> 1], [dict |-> "ok"], [list |-> <<>>]}

\* Python's str() of the data
Str(data) ==
    IF "text" \in DOMAIN data THEN data.text
    ELSE IF "none" \in DOMAIN data THEN "None"
    ELSE IF "int" \in DOMAIN data THEN "1"
    ELSE IF "dict" \in DOMAIN data THEN "{'ok': True}"
    ELSE "[]"

\* json.loads of a string: the value of a JSON document, JSONDecodeError for
\* anything else (a bare word, None, the single-quoted repr of a dict)
json_loads(s) ==
    IF s = "1" THEN [value |-> [int |-> 1]]
    ELSE IF s = "[]" THEN [value |-> [list |-> <<>>]]
    ELSE IF s = "{\"ok\": true}" THEN [value |-> [dict |-> "ok"]]
    ELSE [raised |-> "JSONDecodeError"]

\* the tool_use_result_message the loop builds from a ToolUse and a ToolResult
ResultMessage(id, name, err, data) ==
    [type |-> "tool_use_result", role |-> "user",
     call_result |-> [result |-> Str(data), error |-> err,
                      tool_use_id |-> id, tool_name |-> name]]

ResultMessages ==
    {ResultMessage([call |-> 1], "read_file", e, d) : e \in BOOLEAN, d \in ToolData}

\* the texts of a message: the empty text and two others
Texts == {[txt |-> 0, part |-> 0], [txt |-> 1, part |-> 1], [txt |-> 2, part |-> 1]}

\* the text messages without thinking data, of the user and of the assistant
TextMessages ==
    {[type |-> "text", role |-> r, text |-> t, thinking_data |-> None] :
        r \in {"user", "assistant"}, t \in Texts}

\* GeminiClient._convert_message: the ContentDict, or the exception raised
GeminiMessage(m) ==
    IF m.type = "text"
    THEN [role |-> IF m.role = "user" THEN "user" ELSE "model",
          parts |-> <<[text |-> m.text]>>]
    ELSE IF m.type = "tool_use"
    THEN [role |-> "model",
          parts |-> <<[function_call |-> [id |-> m.call.tool_use_id,
                                          name |-> m.call.tool_name]]>>]
    ELSE LET parsed == json_loads(m.call_result.result)
         IN  IF "raised" \in DOMAIN parsed THEN parsed
             ELSE [role |-> "user",
                   parts |-> <<[function_response |->
                                   [id |-> m.call_result.tool_use_id,
                                    name |-> m.call_result.tool_name,
                                    response |-> parsed.value]]>>]

\* self._convert_message(message)
ConvertMessage(adapter, m) ==
    IF adapter = "anthropic" THEN AnthropicMessage(m)
    ELSE IF adapter = "openai" THEN OpenAIMessage(m)
    ELSE GeminiMessage(m)

ConvertMessageCalls ==
    {[op |-> "_convert_message", in |-> [adapter |-> a, message |-> m],
      done |-> FALSE, out |-> Pending] :
        a \in Providers, m \in TextMessages \cup ResultMessages}

\* the vendor response that carries the text of a converted text message: a
\* text block, a message item of one output_text, a text part
Echo(adapter, v) ==
    IF adapter = "anthropic"
    THEN [blocks |-> <<[type |-> "text", text |-> v.content[1].text]>>,
          status |-> "end_turn"]
    ELSE IF adapter = "openai"
    THEN [blocks |-> <<[type |-> "message",
                        content |-> <<[type |-> "output_text",
                                       text |-> v.content]>>]>>,
          status |-> "completed"]
    ELSE [blocks |-> <<[text |-> v.parts[1].text, function_call |-> None]>>,
          status |-> "STOP", missing |-> "nothing"]

\* a text message converted to the vendor's content and converted back
TextRoundTrip(adapter, m) ==
    ConvertResponse(adapter, Echo(adapter, ConvertMessage(adapter, m)))

TextRoundTripCalls ==
    {[op |-> "text_round_trip", in |-> [adapter |-> a, message |-> m],
      done |-> FALSE, out |-> Pending] :
        a \in Providers, m \in TextMessages}

(* ------------------------------ _convert_tool -------------------------- *)
\* the names of a schema's parameters, by position
ParamNames == <<"path", "mode">>

\* ToolParameter.enum: None, an empty list, a list of one value
Enums == {None, [list |-> <<>>], [list |-> <<"r">>]}

\* ToolParameter.default: None, 0, 1, False, the empty string, a string
Defaults ==
    {None, [int |-> 0], [int |-> 1], [bool |-> FALSE], [text |-> ""],
     [text |-> "r"]}

\* Python's truth value of an enum or default
Truthy(v) ==
    IF "none" \in DOMAIN v THEN FALSE
    ELSE IF "list" \in DOMAIN v THEN Len(v.list) > 0
    ELSE IF "int" \in DOMAIN v THEN v.int # 0
    ELSE IF "bool" \in DOMAIN v THEN v.bool
    ELSE v.text # ""

\* ToolSchema.parameters (descriptions left out): up to Len(ParamNames)
\* parameters of distinct names
ToolSchemas ==
    UNION {{[i \in 1..k |-> [name |-> ParamNames[i], type |-> "string",
                             required |-> f[i].required, enum |-> f[i].enum,
                             default |-> f[i].default]] :
               f \in [1..k -> [required : BOOLEAN, enum : Enums,
                               default : Defaults]]} :
           k \in 0..Len(ParamNames)}

\* the entry of properties for one parameter: "if param.enum:" and
\* "if param.default:" decide whether the key is written
Property(type, param) ==
    IF Truthy(param.enum) /\ Truthy(param.default)
    THEN [type |-> type, enum |-> param.enum, default |-> param.default]
    ELSE IF Truthy(param.enum)
    THEN [type |-> type, enum |-> param.enum]
    ELSE IF Truthy(param.default)
    THEN [type |-> type, default |-> param.default]
    ELSE [type |-> type]

\* GeminiClient._convert_tool._convert_parameter_type
GeminiType(type) ==
    IF type = "string" THEN "STRING"
    ELSE IF type = "integer" THEN "INTEGER"
    ELSE IF type = "number" THEN "NUMBER"
    ELSE IF type = "boolean" THEN "BOOLEAN"
    ELSE IF type = "array" THEN "ARRAY"
    ELSE "OBJECT"

\* the names appended to required, in parameter order
RECURSIVE RequiredNames(_)
RequiredNames(parameters) ==
    IF parameters = <<>> THEN <<>>
    ELSE (IF Head(parameters).required THEN <<Head(parameters).name>> ELSE <<>>)
             \o RequiredNames(Tail(parameters))

\* the object schema the three adapters build from schema.parameters
ObjectSchema(adapter, parameters) ==
    [type |-> IF adapter = "gemini" THEN "OBJECT" ELSE "object",
     properties |->
        [n \in {parameters[i].name : i \in 1..Len(parameters)} |->
            LET param == parameters[CHOOSE i \in 1..Len(parameters) :
                                       parameters[i].name = n]
            IN  Property(IF adapter = "gemini" THEN GeminiType(param.type)
                         ELSE param.type, param)],
     required |-> RequiredNames(parameters)]

\* self._convert_tool(tool): the vendor's tool descriptor
ConvertTool(adapter, parameters) ==
    IF adapter = "anthropic"
    THEN [name |-> "read_file", input_schema |-> ObjectSchema(adapter, parameters)]
    ELSE IF adapter = "openai"
    THEN [type |-> "function", name |-> "read_file", strict |-> TRUE,
          parameters |-> ObjectSchema(adapter, parameters)]
    ELSE [function_declarations |->
             <<[name |-> "read_file",
                parameters |-> ObjectSchema(adapter, parameters)]>>]

ConvertToolCalls ==
    {[op |-> "_convert_tool", in |-> [adapter |-> a, parameters |-> ps],
      done |-> FALSE, out |-> Pending] :
        a \in Providers, ps \in ToolSchemas}

(* ----------------------- exponential_backoff_retry --------------------- *)
\* largest retries argument of the decorator
MaxRetries == 3

\* largest delay argument of the decorator, in seconds
MaxDelay == 2

\* what the wrapped function does at its 1st, 2nd, ... call
Scripts == [1..(MaxRetries + 1) -> {"ok", "fail"}]

\* the wrapper's frame at entry: "current_retry = 0; current_delay = delay",
\* no call made, no sleep done, neither returned nor raised
Frame(delay) ==
    [current_retry |-> 0, current_delay |-> delay, calls |-> 0, waits |-> <<>>,
     result |-> "none"]

RetryCalls ==
    {[op |-> "wrapper", in |-> [delay |-> d, retries |-> r, script |-> sc],
      done |-> FALSE, out |-> Frame(d)] :
        d \in 1..MaxDelay, r \in 0..MaxRetries, sc \in Scripts}

\* "await func(*args, **kwargs)": the outcome of the next call
Outcome(f) == f.in.script[f.out.calls + 1]

(* --------------------------- default models ---------------------------- *)
\* LLMModel.get_default_model_id: "self.snapshots[0] or self.name"; indexing
\* an empty list raises IndexError before "or" is evaluated
get_default_model_id(m) ==
    IF Len(m.snapshots) = 0 THEN "IndexError"
    ELSE IF bool(m.snapshots[1]) THEN m.snapshots[1]
    ELSE m.name

\* ANTHROPIC_MODELS[name], OPENAI_MODELS[name], GEMINI_MODELS[name]
ModelByName(name) == CHOOSE m \in MODELS : m.name = name

\* the model each get_default_<provider>_models_for_agents picks for a role
DefaultRoleModels(provider) ==
    IF provider = "anthropic"
    THEN [manager |-> "claude-haiku-4-5", architect |-> "claude-sonnet-4-5",
          developer |-> "claude-sonnet-4-5", qa |-> "claude-sonnet-4-5"]
    ELSE IF provider = "openai"
    THEN [manager |-> "gpt-5-mini", architect |-> "gpt-5.1",
          developer |-> "gpt-5.1", qa |-> "gpt-5.1"]
    ELSE [manager |-> "gemini-2.5-flash-lite", architect |-> "gemini-2.5-flash",
          developer |-> "gemini-2.5-flash", qa |-> "gemini-2.5-flash"]

\* get_default_models_for_agents(provider): the role-to-model-id dict, or the
\* exception of the first get_default_model_id that raises
get_default_models_for_agents(provider) ==
    LET picked == DefaultRoleModels(provider)
        ids == [role \in DOMAIN picked |->
                   get_default_model_id(ModelByName(picked[role]))]
    IN  IF \E role \in DOMAIN ids : ids[role] = "IndexError"
        THEN [raised |-> TRUE]
        ELSE [raised |-> FALSE, models |-> ids]

DefaultIdCalls ==
    {[op |-> "get_default_model_id", in |-> m, done |-> FALSE, out |-> Pending] :
        m \in MODELS}

DefaultModelsCalls ==
    {[op |-> "get_default_models_for_agents", in |-> p, done |-> FALSE,
      out |-> Pending] : p \in Providers}

(* ------------------------------ AdapterSpec ---------------------------- *)
\* the agent's variables, which the adapter functions do not touch
agent == <<max_turns, fallback_llm_client, messages, pc, prompt, turn,
           response, idx, has_tool_use, demand, emitted, error, history>>

FnCalls ==
    ConstructCalls \cup RequestCalls \cup ConvertCalls \cup RoundTripCalls
        \cup DefaultIdCalls \cup DefaultModelsCalls
        \cup ConvertMessageCalls \cup TextRoundTripCalls
        \cup ConvertToolCalls \cup RetryCalls

\* no agent is running; one call of one adapter function is picked
AdapterInit ==
    /\ fn \in FnCalls
    /\ max_turns = 0
    /\ fallback_llm_client = FALSE
    /\ messages = <<>>
    /\ pc = "idle"
    /\ prompt = "None"
    /\ turn = 0
    /\ response = <<>>
    /\ idx = 0
    /\ has_tool_use = FALSE
    /\ demand = FALSE
    /\ emitted = <<>>
    /\ error = "none"
    /\ invocations = 0
    /\ primaryCalls = 0
    /\ turnFallbackCalls = 0
    /\ returned = 0
    /\ netAttempts = NoAttempts
    /\ toolExecs = 0
    /\ lastResult = "none"
    /\ turnStart = 0
    /\ sentArgs = NoArgs
    /\ calls = NoCalls
    /\ turnKinds = <<>>

\* the picked call is made and its output kept
Return(result) ==
    /\ ~fn.done
    /\ fn' = [fn EXCEPT !.done = TRUE, !.out = result]
    /\ UNCHANGED agent

\* create_llm_client(config)
Construct == fn.op = "create_llm_client" /\ Return(CreateClient(fn.in))

\* complete(...) up to the network call: the request arguments
Complete == fn.op = "complete" /\ Return(BuildRequest(fn.in))

\* _convert_llm_response(response)
Convert ==
    /\ fn.op = "_convert_llm_response"
    /\ Return(ConvertResponse(fn.in.adapter, fn.in.response))

\* a response converted and sent back with the next request
SendBack ==
    /\ fn.op = "round_trip"
    /\ Return(RoundTrip(fn.in.adapter, fn.in.response))

\* model.get_default_model_id()
DefaultId ==
    fn.op = "get_default_model_id" /\ Return(get_default_model_id(fn.in))

\* get_default_models_for_agents(provider)
DefaultModels ==
    /\ fn.op = "get_default_models_for_agents"
    /\ Return(get_default_models_for_agents(fn.in))

\* self._convert_message(message)
ConvertOne ==
    /\ fn.op = "_convert_message"
    /\ Return(ConvertMessage(fn.in.adapter, fn.in.message))

\* a text message sent to the vendor and read back from its response
TextBack ==
    /\ fn.op = "text_round_trip"
    /\ Return(TextRoundTrip(fn.in.adapter, fn.in.message))

\* self._convert_tool(tool)
ConvertOneTool ==
    /\ fn.op = "_convert_tool"
    /\ Return(ConvertTool(fn.in.adapter, fn.in.parameters))

\* one iteration of "while current_retry < retries": the call returns, or it
\* raises and the wrapper re-raises or sleeps and doubles the delay
Attempt ==
    /\ fn.op = "wrapper"
    /\ ~fn.done
    /\ fn.out.current_retry < fn.in.retries
    /\ fn' =
          IF Outcome(fn) = "ok"
          THEN [fn EXCEPT !.done = TRUE, !.out.calls = @ + 1,
                          !.out.result = "returned"]
          ELSE IF fn.out.current_retry + 1 >= fn.in.retries
          THEN [fn EXCEPT !.done = TRUE, !.out.calls = @ + 1,
                          !.out.current_retry = @ + 1,
                          !.out.result = "raised"]
          ELSE [fn EXCEPT !.out.calls = @ + 1,
                          !.out.current_retry = @ + 1,
                          !.out.waits = Append(@, fn.out.current_delay),
                          !.out.current_delay = @ * 2]
    /\ UNCHANGED agent

\* the statement after the loop, "return await func(*args, **kwargs)"
AfterLoop ==
    /\ fn.op = "wrapper"
    /\ ~fn.done
    /\ ~(fn.out.current_retry < fn.in.retries)
    /\ fn' = [fn EXCEPT !.done = TRUE, !.out.calls = @ + 1,
                        !.out.result = IF Outcome(fn) = "ok" THEN "returned"
                                       ELSE "raised"]
    /\ UNCHANGED agent

AdapterNext ==
    \/ Attempt
    \/ AfterLoop
    \/ ConvertOneTool
    \/ ConvertOne
    \/ TextBack
    \/ Construct
    \/ Complete
    \/ Convert
    \/ SendBack
    \/ DefaultId
    \/ DefaultModels

AdapterSpec == AdapterInit /\ [][AdapterNext]_vars

\* C16 (as claimed): constructing a client succeeds exactly when the model id
\* or snapshot alias is registered under the provider and, if reasoning is
\* requested, the model is reasoning-capable; otherwise the constructor fails
\* with the error that names the cause.
C16_ConstructIffValid ==
    (fn.op = "create_llm_client" /\ fn.done) =>
        IF ~validate_model(fn.in.provider, fn.in.model)
        THEN fn.out = "ValueError: invalid model"
        ELSE IF fn.in.reasoning_enabled /\ ~is_reasoning_model(fn.in.model)
        THEN fn.out = "ValueError: model does not support reasoning"
        ELSE fn.out = "client"

\* C17 (as claimed): for each of the three adapters, every request complete
\* builds disables parallel tool calls.
C17_ParallelDisabled ==
    (fn.op = "complete" /\ fn.done) => ParallelToolCallsDisabled(fn.out)

\* C18 (as claimed): for every adapter and every vendor status of a response
\* with a usable completion, the stop reason is a member of StopReason: the
\* mapped member for a mapped status, unknown for an unmapped or absent one.
C18_StopReasonClosed ==
    (/\ fn.op = "_convert_llm_response"
     /\ fn.done
     /\ ~(fn.in.adapter = "gemini" /\ fn.in.response.blocks = <<>>)) =>
        /\ fn.out.stop_reason \in StopReason
        /\ fn.out.stop_reason =
              Get(stop_reason_map(fn.in.adapter), fn.in.response.status, "unknown")

\* a vendor block that carries reasoning, and its metadata token and blob
IsReasoningBlock(b) == b.type \in {"thinking", "reasoning"}
Token(b) == IF b.type = "thinking" THEN b.signature ELSE b.id
Blob(x) == IF "encrypted_content" \in DOMAIN x THEN x.encrypted_content ELSE None

\* position, in the vendor response, of the block a message was built from
Src(m) == IF m.type = "text" THEN m.text.txt ELSE m.call.tool_use_id.call

\* the reasoning blocks of the response that stand between the block of the
\* k-th message and the block of the message before it; none for the second
\* text of one block
ReasoningSince(blocks, content, k) ==
    LET prev == IF k = 1 THEN 0 ELSE Src(content[k - 1])
    IN  {r \in (prev + 1)..(Src(content[k]) - 1) : IsReasoningBlock(blocks[r])}

\* C19: in _convert_llm_response of the Anthropic and OpenAI adapters a
\* reasoning block is attached to at most one Message, the next text or
\* tool-use that follows it, and is cleared once attached: an attached block
\* is one received since the previous content block, no two Messages carry the
\* same one, and a Message with no reasoning block since the previous content
\* block carries none.
C19_AttachedOnce ==
    (fn.op = "_convert_llm_response" /\ fn.done
     /\ fn.in.adapter \in {"anthropic", "openai"}) =>
        LET blocks == fn.in.response.blocks
            content == fn.out.content
        IN  /\ \A k \in 1..Len(content) :
                  /\ content[k].thinking_data # None =>
                        \E r \in ReasoningSince(blocks, content, k) :
                            /\ content[k].thinking_data.metadata = Token(blocks[r])
                            /\ content[k].thinking_data.encrypted_content
                                  = Blob(blocks[r])
                  /\ ReasoningSince(blocks, content, k) = {} =>
                        content[k].thinking_data = None
            /\ \A k, l \in 1..Len(content) :
                  (k < l /\ content[k].thinking_data # None) =>
                      content[k].thinking_data # content[l].thinking_data

\* C19 witness: an OpenAI response whose reasoning item went to the first of
\* two texts of one message; the second text carries none
C19_Witness ==
    /\ fn.op = "_convert_llm_response"
    /\ fn.done
    /\ fn.in.adapter = "openai"
    /\ Len(fn.out.content) >= 2
    /\ fn.out.content[1].thinking_data # None
    /\ fn.out.content[2].thinking_data = None
    /\ Src(fn.out.content[1]) = Src(fn.out.content[2])

\* a block the adapter turns into at least one Message, and what identifies
\* the first of them: its text or its call id
Bears(b) ==
    \/ b.type \in {"text", "tool_use", "function_call"}
    \/ b.type = "message" /\ b.content[1].type = "output_text"

FirstKey(b) ==
    IF b.type = "text" THEN b.text
    ELSE IF b.type = "message" THEN b.content[1].text
    ELSE IF b.type = "tool_use" THEN b.id
    ELSE b.call_id

\* the reasoning block at r is the one received directly before the content
\* block at c
Annotates(blocks, r, c) ==
    /\ r < c
    /\ IsReasoningBlock(blocks[r])
    /\ Bears(blocks[c])
    /\ \A k \in (r + 1)..(c - 1) : ~Bears(blocks[k]) /\ ~IsReasoningBlock(blocks[k])

\* a serialised item that carries reasoning, its token, and what identifies a
\* serialised content item
IsReasoningItem(it) == "type" \in DOMAIN it /\ it.type \in {"thinking", "reasoning"}
ItemToken(it) == IF it.type = "thinking" THEN it.signature ELSE it.id
ItemKey(it) ==
    IF "text" \in DOMAIN it THEN it.text
    ELSE IF "content" \in DOMAIN it THEN it.content
    ELSE IF "call_id" \in DOMAIN it THEN it.call_id
    ELSE IF "id" \in DOMAIN it THEN it.id
    ELSE None

\* C20 (as claimed): a reasoning block received directly before a text or
\* tool-use block is sent back on the next request as a reasoning item that
\* immediately precedes that content and carries the same metadata token and
\* the same encrypted blob, with or without summary text.
C20_ReasoningRoundTrip ==
    (fn.op = "round_trip" /\ fn.done) =>
        LET blocks == fn.in.response.blocks
            items == fn.out.items
        IN  \A r, c \in 1..Len(blocks) :
                Annotates(blocks, r, c) =>
                    \E k \in 1..(Len(items) - 1) :
                        /\ IsReasoningItem(items[k])
                        /\ ItemToken(items[k]) = Token(blocks[r])
                        /\ Blob(items[k]) = Blob(blocks[r])
                        /\ ItemKey(items[k + 1]) = FirstKey(blocks[c])

\* every ToolUse of q is directly followed by the ToolUseResult with its id
AllAnswered(q) ==
    \A i \in 1..Len(q) :
        IsToolUse(q[i]) =>
            /\ i < Len(q)
            /\ IsResult(q[i + 1])
            /\ q[i + 1].tool_use_id = q[i].tool_use_id

\* C28 (as claimed): whenever a complete call is awaited, on the first or on a
\* later invocation of the agent, every ToolUse of the transcript passed to
\* the client is directly followed by its ToolUseResult.
C28_SentTranscriptAnswered ==
    pc \in {"primary", "fallback"} => AllAnswered(sentArgs[pc])

\* the part of a request that configures the reasoning channel: Anthropic's
\* "thinking", OpenAI's "reasoning"
ReasoningConfig(req) ==
    IF "thinking" \in DOMAIN req THEN req.thinking
    ELSE IF "reasoning" \in DOMAIN req THEN req.reasoning
    ELSE Absent

\* does the request carry a token budget for reasoning
HasBudget(req) == "budget_tokens" \in DOMAIN ReasoningConfig(req)

\* C27 (as claimed): with reasoning enabled the Anthropic and the OpenAI
\* request carry a reasoning budget of floor(max_tokens / 2); with reasoning
\* disabled they carry none.
C27_HalfBudget ==
    (fn.op = "complete" /\ fn.done /\ fn.in.adapter \in {"anthropic", "openai"}) =>
        IF fn.in.reasoning_enabled
        THEN /\ HasBudget(fn.out)
             /\ ReasoningConfig(fn.out).budget_tokens = fn.in.max_tokens \div 2
        ELSE ~HasBudget(fn.out)

\* C30 (as claimed): for every model of the registry get_default_model_id
\* returns the first snapshot alias, or the name when there is no snapshot,
\* and get_default_models_for_agents returns for each provider a mapping whose
\* every model id passes validate_model for that provider.
C30_DefaultModels ==
    /\ (fn.op = "get_default_model_id" /\ fn.done) =>
          fn.out = (IF fn.in.snapshots # <<>> THEN fn.in.snapshots[1]
                    ELSE fn.in.name)
    /\ (fn.op = "get_default_models_for_agents" /\ fn.done) =>
          /\ ~fn.out.raised
          /\ \A role \in DOMAIN fn.out.models :
                validate_model(fn.in, fn.out.models[role])

\* the ToolUse messages of a converted response
ToolUses(content) == {i \in 1..Len(content) : content[i].type = "tool_use"}

\* the function-call parts of a Gemini response that have a name and an id
NamedCalls(parts) ==
    {i \in 1..Len(parts) :
        /\ parts[i].function_call # None
        /\ parts[i].function_call.id # None}

\* C29 (as claimed): the Gemini adapter's _convert_llm_response produces one
\* ToolUse message for every function-call part that has a name and a call
\* id, whatever its args mapping, the empty mapping included.
C29_OneToolUsePerCall ==
    (/\ fn.op = "_convert_llm_response"
     /\ fn.done
     /\ fn.in.adapter = "gemini"
     /\ fn.in.response.blocks # <<>>) =>
        Cardinality(ToolUses(fn.out.content)) =
            Cardinality(NamedCalls(fn.in.response.blocks))

\* the parts of a sequence that are not function calls without an id
RECURSIVE WithoutIdless(_)
WithoutIdless(parts) ==
    IF parts = <<>> THEN <<>>
    ELSE IF Head(parts).function_call # None /\ Head(parts).function_call.id = None
    THEN WithoutIdless(Tail(parts))
    ELSE <<Head(parts)>> \o WithoutIdless(Tail(parts))

HasIdless(parts) == Len(WithoutIdless(parts)) < Len(parts)

C23_NoCandidates ==
    (/\ fn.op = "_convert_llm_response"
     /\ fn.done
     /\ fn.in.adapter = "gemini"
     /\ \/ fn.in.response.missing \in {"candidates", "content", "parts"}
        \/ fn.in.response.blocks = <<>>) =>
        /\ fn.out.content = <<>>
        /\ fn.out.stop_reason = "no_candidates"

\* C23 witness: a response whose first candidate has a finish_reason but no
\* content has been converted
C23_Witness ==
    /\ fn.op = "_convert_llm_response"
    /\ fn.done
    /\ fn.in.adapter = "gemini"
    /\ fn.in.response.missing = "content"
    /\ fn.in.response.status = "STOP"
    /\ fn.out.stop_reason = "no_candidates"

\* C21 (as claimed): for each adapter and every text message without thinking
\* data, of the user or of the assistant, _convert_message followed by
\* _convert_llm_response yields one text message of the same role and text.
C21_TextRoundTrip ==
    (fn.op = "text_round_trip" /\ fn.done) =>
        /\ Len(fn.out.content) = 1
        /\ fn.out.content[1].type = "text"
        /\ fn.out.content[1].role = fn.in.message.role
        /\ fn.out.content[1].text = fn.in.message.text

\* the correlation id of a vendor tool-result item
ResultKey(adapter, v) ==
    IF adapter = "anthropic" THEN v.content[1].tool_use_id
    ELSE IF adapter = "openai" THEN v.call_id
    ELSE v.parts[1].function_response.id

\* C25 (as claimed): for every tool_use_result message the loop can append,
\* whose result is str() of the tool's data, each adapter's _convert_message
\* returns without raising a tool-result item keyed by the same id.
C25_ResultSerialised ==
    (/\ fn.op = "_convert_message"
     /\ fn.done
     /\ fn.in.message.type = "tool_use_result") =>
        /\ "raised" \notin DOMAIN fn.out
        /\ ResultKey(fn.in.adapter, fn.out) = fn.in.message.call_result.tool_use_id

\* the object schema inside a vendor's tool descriptor
SchemaOf(adapter, descriptor) ==
    IF adapter = "anthropic" THEN descriptor.input_schema
    ELSE IF adapter = "openai" THEN descriptor.parameters
    ELSE descriptor.function_declarations[1].parameters

\* C22 (as claimed): for the three adapters and every schema, the descriptor
\* _convert_tool builds lists as required exactly the parameters with
\* required = True, and the property of a parameter carries its enum and its
\* default whenever they are set, a default of 0, False or "" and an empty
\* enum list included.
C22_ToolSchemaPreserved ==
    (fn.op = "_convert_tool" /\ fn.done) =>
        LET schema == SchemaOf(fn.in.adapter, fn.out)
            ps == fn.in.parameters
        IN  /\ Range(schema.required) =
                  {ps[i].name : i \in {j \in 1..Len(ps) : ps[j].required}}
            /\ \A i \in 1..Len(ps) :
                  LET property == schema.properties[ps[i].name]
                  IN  /\ ps[i].enum # None =>
                            /\ "enum" \in DOMAIN property
                            /\ property.enum = ps[i].enum
                      /\ ps[i].default # None =>
                            /\ "default" \in DOMAIN property
                            /\ property.default = ps[i].default

\* C24 (as claimed): for every retries >= 0 and delay > 0 the wrapped
\* function is called at most retries times per wrapper call; the wrapper
\* returns at the first successful attempt; before attempt k + 1 it has waited
\* delay * 2^(k-1); and after retries consecutive failures it re-raises
\* without another attempt or wait.
C24_BackoffRetry ==
    fn.op = "wrapper" =>
        LET f == fn.out
        IN  /\ f.calls <= fn.in.retries
            /\ \A k \in 1..Len(f.waits) : f.waits[k] = fn.in.delay * 2^(k - 1)
            /\ f.result = "none" => Len(f.waits) = f.calls
            /\ f.result = "returned" =>
                  /\ fn.in.script[f.calls] = "ok"
                  /\ \A j \in 1..(f.calls - 1) : fn.in.script[j] = "fail"
                  /\ Len(f.waits) = f.calls - 1
            /\ f.result = "raised" =>
                  /\ f.calls = fn.in.retries
                  /\ \A j \in 1..f.calls : fn.in.script[j] = "fail"
                  /\ Len(f.waits) = fn.in.retries - 1
====
